---- MODULE Spec2Model ----
(***************************************************************************)
(* Model of the Synthetic-Business-Process-Generator:                      *)
(*   - the worker pool of src/generator.py                  (PoolSpec)     *)
(*   - ProcessGenerator.generate_process and its repair pass (GraphSpec)   *)
(*   - ProcessDataGenerator._generate_timestamp              (TimeSpec)    *)
(*   - ProcessDataGenerator.generate_data on a generated graph (CaseSpec)  *)
(*   - one job of the pool and its labeler requests          (JobSpec)     *)
(*   - the objects the worker threads read and write         (ShareSpec)   *)
(***************************************************************************)
EXTENDS Integers, Sequences, FiniteSets, TLC

VARIABLES
    \* ---- src/generator.py ----
    names,          \* main: the list `names` still to be put on the queue
    total,          \* main: nameGen.get_total()
    throwing,       \* the jobs whose pipeline raises (an input of the run)
    num_threads,    \* main(num_threads)
    name_queue,     \* Queue: the items, head first
    unfinished,     \* Queue.unfinished_tasks
    mainpc,         \* main's position
    mainidx,        \* main's loop index (workers started / joined so far)
    wpc,            \* each worker thread's position
    wjob,           \* each worker's process_name (0: none)
    wstage,         \* the pipeline stage the worker is about to run
    werror,         \* the exception that ended the thread ("none": none)
    starts,         \* per job: how many times its pipeline was started
    outcome,        \* per job: what the workers printed about it, in order
    completed,      \* "All processes completed!" was printed
    \* ---- src/data_gen/ProcessGenerator.py ----
    gpc,                \* position inside generate_process
    min_nodes,          \* self.min_nodes
    max_nodes,          \* self.max_nodes
    min_connections,    \* self.min_connections
    max_connections,    \* self.max_connections
    lmstudio_connector, \* whether self.lmstudio_connector is set
    nodes,              \* self.nodes
    graph,              \* self.graph: node -> list of targets
    gi,                 \* index of the loop over self.nodes that is running
    used_names,         \* self.used_names
    node_mapping,       \* generate_process: node_mapping
    new_nodes,          \* generate_process: new_nodes
    requests,           \* labeler requests made for the node named last
    replies,            \* the replies to them, in order, while the loop runs
    asked,              \* the nodes a name was requested for
    repair_runs,        \* completed runs of _ensure_valid_process
    before_rerun,       \* <<graph, nodes>> when the repair pass was run again
    \* ---- src/data_gen/ProcessDataGenerator.py ----
    tpc,                \* position inside _generate_timestamp
    base_time,          \* argument base_time, in minutes since a Monday 00:00
    activity_duration,  \* argument activity_duration, in minutes
    current_time,       \* local current_time, in minutes since that Monday
    rolls,              \* iterations of the while loop so far
    cpc,                \* position inside generate_data
    num_cases,          \* self.num_cases
    case_id,            \* generate_data: case_id
    path,               \* _generate_case_path: path (its last item is current)
    pi,                 \* index of the loop over path (line 186)
    case_time,          \* generate_data: current_time, the clock of the case
    events,             \* generate_data: events, then the rows of df
    \* ---- one job of src/generator.py and its labeler requests ----
    jpc,                \* position inside the try block of run
    process_name,       \* run: process_name
    departments,        \* ProcessDataGenerator.departments
    todo,               \* activities still to relabel / cases still to simulate
    labeler_log,        \* the get_answer calls of the job and what became of them
    jerror,             \* the exception that reached line 54 ("none": none)
    \* ---- the objects the threads of src/generator.py work on ----
    opc,                \* each worker thread's position in run
    ojob,               \* each worker thread's current job (0: none)
    oqueue,             \* name_queue
    touched             \* for each object, the threads that read or wrote it

poolvars == <<names, total, throwing, num_threads, name_queue, unfinished, mainpc,
              mainidx, wpc, wjob, wstage, werror, starts, outcome, completed>>

graphvars == <<gpc, min_nodes, max_nodes, min_connections, max_connections,
               lmstudio_connector, nodes, graph, gi, used_names, node_mapping,
               new_nodes, requests, replies, asked, repair_runs, before_rerun>>

timevars == <<tpc, base_time, activity_duration, current_time, rolls>>

casevars == <<cpc, num_cases, case_id, path, pi, case_time, events>>

jobvars == <<jpc, process_name, departments, todo, labeler_log, jerror>>

sharevars == <<opc, ojob, oqueue, touched>>

vars == <<poolvars, graphvars, timevars, casevars, jobvars, sharevars>>

notpool == <<graphvars, timevars, casevars, jobvars, sharevars>>
notgraph == <<poolvars, timevars, casevars, jobvars, sharevars>>
nottime == <<poolvars, graphvars, casevars, jobvars, sharevars>>
notcase == <<poolvars, timevars, jobvars, sharevars>>
notjob == <<poolvars, graphvars, timevars, casevars, sharevars>>
notshare == <<poolvars, graphvars, timevars, casevars, jobvars>>

(***************************************************************************)
(* Bounds                                                                  *)
(***************************************************************************)
MaxJobs == 2
MaxWorkers == 2
MaxNodes == 4
MaxConnections == 2
MaxDay == 6
MaxRolls == 3
MaxCases == 2

Jobs == 1..MaxJobs
Workers == 0..(MaxWorkers - 1)

(***************************************************************************)
(* src/generator.py                                                        *)
(***************************************************************************)

\* The statements inside the try block of run, in order (generator.py 22-52).
Stages == <<"improve_name", "generate_process", "visualize",
            "data_generator", "save_to_csv">>

\* names.pop(): the last element leaves the list.
ListPop(l) == SubSeq(l, 1, Len(l) - 1)

\* No generate_process call is under way.
GraphIdle ==
    /\ gpc = "idle"
    /\ min_nodes = 3
    /\ max_nodes = 3
    /\ min_connections = 1
    /\ max_connections = 1
    /\ lmstudio_connector = FALSE
    /\ nodes = <<>>
    /\ graph = <<>>
    /\ gi = 0
    /\ used_names = {}
    /\ node_mapping = <<>>
    /\ new_nodes = <<>>
    /\ requests = 0
    /\ replies = <<>>
    /\ asked = {}
    /\ repair_runs = 0
    /\ before_rerun = <<>>

\* No _generate_timestamp call is under way.
TimeIdle ==
    /\ tpc = "idle"
    /\ base_time = 0
    /\ activity_duration = 0
    /\ current_time = 0
    /\ rolls = 0

\* generate_data has not been called.
CaseIdle ==
    /\ cpc = "idle"
    /\ num_cases = 0
    /\ case_id = 0
    /\ path = <<>>
    /\ pi = 0
    /\ case_time = 0
    /\ events = <<>>

\* The name queue.
QueueObject == <<"name_queue", 0>>

\* A main that hands the first connector to every worker.
ConnectorShared(w) == <<"connector", 0>>

\* main, lines 72 and 77: one LMStudioConnector per thread; worker i is
\* constructed with connectors[i] and passes it on to everything it builds.
ConnectorOf(w) == <<"connector", w>>

\* The generator behind random.randint, random.sample, random.choice and
\* random.random (ProcessGenerator.py line 1, ProcessDataGenerator.py line
\* 4): the functions of the module random are the methods of one hidden
\* instance, the same in every thread.
RandomOf(w) == <<"random", 0>>

\* ProcessGenerator.__init__, line 17: each generator has its own used_names;
\* run builds one generator per job (line 27).
UsedNamesOf(j) == <<"used_names", j>>

Objects ==
    {QueueObject, <<"random", 0>>}
       \cup {<<"connector", w>> : w \in Workers}
       \cup {<<"used_names", j>> : j \in Jobs}

\* No thread has touched any object.
ShareIdle ==
    /\ opc = [w \in Workers |-> "unstarted"]
    /\ ojob = [w \in Workers |-> 0]
    /\ oqueue = <<>>
    /\ touched = [o \in Objects |-> {}]

\* No job is under way.
JobIdle ==
    /\ jpc = "idle"
    /\ process_name = ""
    /\ departments = <<>>
    /\ todo = 0
    /\ labeler_log = <<>>
    /\ jerror = "none"

\* main has not been called.
PoolIdle ==
    /\ names = <<>>
    /\ total = 0
    /\ throwing = {}
    /\ num_threads = 1
    /\ name_queue = <<>>
    /\ unfinished = 0
    /\ mainpc = "idle"
    /\ mainidx = 0
    /\ wpc = [w \in Workers |-> "unstarted"]
    /\ wjob = [w \in Workers |-> 0]
    /\ wstage = [w \in Workers |-> 0]
    /\ werror = [w \in Workers |-> "none"]
    /\ starts = [j \in Jobs |-> 0]
    /\ outcome = [j \in Jobs |-> <<>>]
    /\ completed = FALSE

PoolInit ==
    /\ GraphIdle
    /\ TimeIdle
    /\ CaseIdle
    /\ JobIdle
    /\ ShareIdle
    /\ \E n \in 0..MaxJobs : names = [i \in 1..n |-> i]
    /\ total = Len(names)
    /\ throwing \in SUBSET Jobs
    /\ throwing \subseteq {names[i] : i \in 1..Len(names)}
    /\ num_threads \in 1..MaxWorkers
    /\ name_queue = <<>>
    /\ unfinished = 0
    /\ mainpc = "populate"
    /\ mainidx = 0
    /\ wpc = [w \in Workers |-> "unstarted"]
    /\ wjob = [w \in Workers |-> 0]
    /\ wstage = [w \in Workers |-> 0]
    /\ werror = [w \in Workers |-> "none"]
    /\ starts = [j \in Jobs |-> 0]
    /\ outcome = [j \in Jobs |-> <<>>]
    /\ completed = FALSE

\* main, lines 67-69: one iteration of the loop over range(get_total()):
\* if names: name_queue.put(names.pop()).
MainPut ==
    /\ mainpc = "populate"
    /\ mainidx < total
    /\ mainidx' = mainidx + 1
    /\ IF names # <<>>
         THEN /\ name_queue' = Append(name_queue, names[Len(names)])
              /\ unfinished' = unfinished + 1
              /\ names' = ListPop(names)
         ELSE UNCHANGED <<name_queue, unfinished, names>>
    /\ UNCHANGED notpool
    /\ UNCHANGED <<total, throwing, num_threads, mainpc, wpc, wjob, wstage,
                   werror, starts, outcome, completed>>

\* main, line 72: the queue is populated, the connectors are created.
MainPopulated ==
    /\ mainpc = "populate"
    /\ mainidx = total
    /\ mainpc' = "start_workers"
    /\ mainidx' = 0
    /\ UNCHANGED notpool
    /\ UNCHANGED <<names, total, throwing, num_threads, name_queue, unfinished, wpc,
                   wjob, wstage, werror, starts, outcome, completed>>

\* main, lines 76-79: worker i is created and started.
MainStartWorker ==
    /\ mainpc = "start_workers"
    /\ mainidx < num_threads
    /\ wpc' = [wpc EXCEPT ![mainidx] = "get"]
    /\ mainidx' = mainidx + 1
    /\ UNCHANGED notpool
    /\ UNCHANGED <<names, total, throwing, num_threads, name_queue, unfinished,
                   mainpc, wjob, wstage, werror, starts, outcome, completed>>

MainStarted ==
    /\ mainpc = "start_workers"
    /\ mainidx = num_threads
    /\ mainpc' = "queue_join"
    /\ UNCHANGED notpool
    /\ UNCHANGED <<names, total, throwing, num_threads, name_queue, unfinished,
                   mainidx, wpc, wjob, wstage, werror, starts, outcome,
                   completed>>

\* A join that returns as soon as the queue holds no item.
QueueJoinWhenEmpty == name_queue = <<>>

\* Queue.join returns when every put has been matched by a task_done.
QueueJoinReturns == unfinished = 0

\* main, line 82: name_queue.join().
MainQueueJoin ==
    /\ mainpc = "queue_join"
    /\ QueueJoinReturns
    /\ mainpc' = "join_workers"
    /\ mainidx' = 0
    /\ UNCHANGED notpool
    /\ UNCHANGED <<names, total, throwing, num_threads, name_queue, unfinished, wpc,
                   wjob, wstage, werror, starts, outcome, completed>>

\* A join that does not wait for the thread.
ThreadJoinNoWait(w) == TRUE

\* Thread.join returns when the thread has ended, normally or by an exception.
ThreadJoinReturns(w) == wpc[w] = "exited"

\* main, lines 85-86: worker.join(), in the order the workers were started.
MainJoinWorker ==
    /\ mainpc = "join_workers"
    /\ mainidx < num_threads
    /\ ThreadJoinReturns(mainidx)
    /\ mainidx' = mainidx + 1
    /\ UNCHANGED notpool
    /\ UNCHANGED <<names, total, throwing, num_threads, name_queue, unfinished,
                   mainpc, wpc, wjob, wstage, werror, starts, outcome,
                   completed>>

\* main, line 88: print("All processes completed!").
MainCompleted ==
    /\ mainpc = "join_workers"
    /\ mainidx = num_threads
    /\ mainpc' = "done"
    /\ completed' = TRUE
    /\ UNCHANGED notpool
    /\ UNCHANGED <<names, total, throwing, num_threads, name_queue, unfinished,
                   mainidx, wpc, wjob, wstage, werror, starts, outcome>>

\* A get that returns the head and leaves it on the queue.
QueueAfterGetPeek(q) == q

\* run, line 16: get_nowait() on a non-empty queue removes and returns the head.
QueueAfterGet(q) == Tail(q)

WorkerGet(w) ==
    /\ wpc[w] = "get"
    /\ name_queue # <<>>
    /\ wjob' = [wjob EXCEPT ![w] = Head(name_queue)]
    /\ name_queue' = QueueAfterGet(name_queue)
    /\ starts' = [starts EXCEPT ![Head(name_queue)] = @ + 1]
    /\ wstage' = [wstage EXCEPT ![w] = 1]
    /\ wpc' = [wpc EXCEPT ![w] = "pipeline"]
    /\ UNCHANGED notpool
    /\ UNCHANGED <<names, total, throwing, num_threads, unfinished, mainpc, mainidx,
                   werror, outcome, completed>>

\* run, lines 16-18: get_nowait() on an empty queue raises queue.Empty.  The
\* handler names Queue.Empty, where Queue is the class queue.Queue (line 2),
\* which has no attribute Empty: evaluating the except clause raises
\* AttributeError, which leaves run and ends the thread.
WorkerGetEmpty(w) ==
    /\ wpc[w] = "get"
    /\ name_queue = <<>>
    /\ wpc' = [wpc EXCEPT ![w] = "exited"]
    /\ werror' = [werror EXCEPT ![w] = "AttributeError"]
    /\ UNCHANGED notpool
    /\ UNCHANGED <<names, total, throwing, num_threads, name_queue, unfinished,
                   mainpc, mainidx, wjob, wstage, starts, outcome, completed>>

\* run, lines 22-52: the current stage returns; after the last one the try
\* block is left normally.
WorkerStageReturns(w) ==
    /\ wpc[w] = "pipeline"
    /\ \/ wjob[w] \notin throwing
       \/ wstage[w] < Len(Stages)
    /\ IF wstage[w] < Len(Stages)
         THEN /\ wstage' = [wstage EXCEPT ![w] = @ + 1]
              /\ UNCHANGED <<wpc, outcome>>
         ELSE /\ wstage' = [wstage EXCEPT ![w] = 0]
              /\ wpc' = [wpc EXCEPT ![w] = "finally"]
              /\ outcome' = [outcome EXCEPT ![wjob[w]] = Append(@, [thread |-> w, msg |-> "created"])]
    /\ UNCHANGED notpool
    /\ UNCHANGED <<names, total, throwing, num_threads, name_queue, unfinished,
                   mainpc, mainidx, wjob, werror, starts, completed>>

\* An except clause that puts the failed job back on the queue.
QueueAfterErrorRequeue(q, j) == Append(q, j)

\* The queue after the except clause of run (lines 54-55) handled the error of
\* job j: the handler prints, it puts nothing back.
QueueAfterError(q, j) == q

\* A run whose task_done() is the last statement of the try block instead of
\* the finally clause: an error skips it.
WorkerStageRaisesSkipsTaskDone(w) ==
    /\ wpc[w] = "pipeline"
    /\ wjob[w] \in throwing
    /\ wstage' = [wstage EXCEPT ![w] = 0]
    /\ wpc' = [wpc EXCEPT ![w] = "get"]
    /\ outcome' = [outcome EXCEPT ![wjob[w]] =
                       Append(@, [thread |-> w, msg |-> "error"])]
    /\ UNCHANGED notpool
    /\ UNCHANGED <<names, total, throwing, num_threads, name_queue, unfinished,
                   mainpc, mainidx, wjob, werror, starts, completed>>

\* run, lines 54-55: the current stage raises; the except clause prints the
\* error and control reaches the finally clause.
WorkerStageRaises(w) ==
    /\ wpc[w] = "pipeline"
    /\ wjob[w] \in throwing
    /\ wstage' = [wstage EXCEPT ![w] = 0]
    /\ wpc' = [wpc EXCEPT ![w] = "finally"]
    /\ outcome' = [outcome EXCEPT ![wjob[w]] = Append(@, [thread |-> w, msg |-> "error"])]
    /\ name_queue' = QueueAfterError(name_queue, wjob[w])
    /\ UNCHANGED notpool
    /\ UNCHANGED <<names, total, throwing, num_threads, unfinished, mainpc, mainidx,
                   wjob, werror, starts, completed>>

\* run, lines 57-58: finally: name_queue.task_done(); then the loop goes on.
WorkerTaskDone(w) ==
    /\ wpc[w] = "finally"
    /\ unfinished' = unfinished - 1
    /\ wjob' = [wjob EXCEPT ![w] = 0]
    /\ wpc' = [wpc EXCEPT ![w] = "get"]
    /\ UNCHANGED notpool
    /\ UNCHANGED <<names, total, throwing, num_threads, name_queue, mainpc, mainidx,
                   wstage, werror, starts, outcome, completed>>

WorkerStep(w) ==
    \/ WorkerGet(w)
    \/ WorkerGetEmpty(w)
    \/ WorkerStageReturns(w)
    \/ WorkerStageRaises(w)
    \/ WorkerTaskDone(w)

MainStep ==
    \/ MainPut
    \/ MainPopulated
    \/ MainStartWorker
    \/ MainStarted
    \/ MainQueueJoin
    \/ MainJoinWorker
    \/ MainCompleted

PoolNext == MainStep \/ \E w \in Workers : WorkerStep(w)

PoolSpec == PoolInit /\ [][PoolNext]_vars

\* The threads are OS threads: main and every started worker keep being
\* scheduled, and every stage of a pipeline returns or raises.
PoolFairSpec ==
    /\ PoolSpec
    /\ WF_vars(MainStep)
    /\ \A w \in Workers : WF_vars(WorkerStep(w))

\* The stages of run that send a request and wait for its answer: line 22
\* (name improvement), line 36 (activity names), lines 43-48 (departments) and
\* line 51 (product categories).  LMStudioConnector.get_answer posts without a
\* timeout (LMStudioConnector.py line 59).
ExternalStages == {"improve_name", "generate_process", "data_generator", "save_to_csv"}

\* run, lines 22-51: the external call of the current stage never returns;
\* the worker stays inside it.  At most one worker of a run is held this way.
WorkerStageBlocks(w) ==
    /\ wpc[w] = "pipeline"
    /\ Stages[wstage[w]] \in ExternalStages
    /\ \A v \in Workers : wpc[v] # "blocked"
    /\ wpc' = [wpc EXCEPT ![w] = "blocked"]
    /\ UNCHANGED notpool
    /\ UNCHANGED <<names, total, throwing, num_threads, name_queue, unfinished,
                   mainpc, mainidx, wjob, wstage, werror, starts, outcome,
                   completed>>

PoolHangNext == PoolNext \/ \E w \in Workers : WorkerStageBlocks(w)

PoolHangSpec == PoolInit /\ [][PoolHangNext]_vars

\* Every thread keeps being scheduled; whether an external call answers is
\* not up to the scheduler.
PoolHangFairSpec ==
    /\ PoolHangSpec
    /\ WF_vars(MainStep)
    /\ \A w \in Workers : WF_vars(WorkerStep(w))

(***************************************************************************)
(* Claims about the worker pool                                            *)
(***************************************************************************)

Submitted == 1..total
Started == {w \in Workers : w < num_threads}
Msgs(j) == {outcome[j][i].msg : i \in 1..Len(outcome[j])}
Threads(j) == {outcome[j][i].thread : i \in 1..Len(outcome[j])}

\* C1: under every interleaving each job is popped by exactly one worker and
\* its pipeline is started exactly once: never twice, and once the pool has
\* finished every submitted job has been started and reported exactly once.
C1_EveryJobExactlyOnce ==
    /\ \A j \in Jobs :
          /\ starts[j] <= 1
          /\ Len(outcome[j]) <= starts[j]
          /\ Cardinality({w \in Workers : wjob[w] = j}) <= 1
          /\ (j \notin Submitted) => starts[j] = 0
    /\ completed =>
          \A j \in Submitted : starts[j] = 1 /\ Len(outcome[j]) = 1

\* Two workers shared the jobs of a finished pool.
C1_Witness ==
    /\ completed
    /\ total >= 2
    /\ \E j1, j2 \in Submitted : Threads(j1) # Threads(j2)

\* More workers than jobs, and the pool has finished.
C1_WitnessMoreWorkers ==
    completed /\ total >= 1 /\ num_threads > total

\* C2: "All processes completed!" is printed only when the queue is empty,
\* every popped job has finished (created or swallowed error) and every
\* worker thread has exited.
C2_JoinOnlyWhenAllDone ==
    (mainpc = "done" \/ completed) =>
        /\ name_queue = <<>>
        /\ unfinished = 0
        /\ \A j \in Jobs : Len(outcome[j]) = starts[j]
        /\ \A w \in Started : wpc[w] = "exited" /\ wjob[w] = 0

\* The pool has finished after a job was created and another one failed.
C2_Witness ==
    /\ mainpc = "done"
    /\ \E j1, j2 \in Submitted : Msgs(j1) = {"created"} /\ Msgs(j2) = {"error"}

\* C3: a raising stage is caught by the worker that runs it: the worker
\* reaches its finally clause, the thread does not end, the queue is left as
\* it is (the job is not put back), the worker then pops again; and every
\* job that does not throw is created by the time the pool has finished.
C3_StepAfterError ==
    \A w \in Workers :
        /\ (wpc[w] = "pipeline" /\ wpc'[w] # "pipeline") =>
              /\ wpc'[w] = "finally"
              /\ werror'[w] = "none"
              /\ name_queue' = name_queue
              /\ Len(outcome'[wjob[w]]) = Len(outcome[wjob[w]]) + 1
        /\ (wpc[w] = "finally" /\ wpc'[w] # "finally") => wpc'[w] = "get"

C3_ErrorsAreSwallowed ==
    /\ [][C3_StepAfterError]_vars
    /\ [](\A j \in Jobs : Msgs(j) = {"error"} =>
             /\ starts[j] = 1
             /\ \A i \in 1..Len(name_queue) : name_queue[i] # j)
    /\ [](completed =>
             \A j \in Submitted :
                 Msgs(j) = (IF j \in throwing THEN {"error"} ELSE {"created"}))

\* A worker runs the pipeline of a job after it swallowed the error of
\* another one.
C3_Witness ==
    \E w \in Workers, j \in Jobs :
        /\ outcome[j] = <<[thread |-> w, msg |-> "error"]>>
        /\ wpc[w] = "pipeline"
        /\ wjob[w] # j

\* C4: with fair scheduling and stages that return or raise, the queue is
\* eventually exhausted, every worker exits and main's joins return.
C4_PoolTerminates ==
    <>[](/\ completed
         /\ name_queue = <<>>
         /\ \A w \in Started : wpc[w] = "exited")

\* The pool has finished with the most jobs and workers, one job failing.
C4_Witness ==
    /\ completed
    /\ total = MaxJobs
    /\ num_threads = MaxWorkers
    /\ throwing # {}

\* The jobs put on the queue and not yet marked done are those on the queue
\* and those a worker holds: task_done was called for popped jobs only.
TaskDoneForPoppedOnly ==
    unfinished = Len(name_queue) + Cardinality({w \in Workers : wjob[w] # 0})

\* C21: a worker that finds the queue empty leaves run without an error in
\* its thread, and without a task_done for a job it did not pop.
C21_EmptyQueueExitsNormally ==
    /\ \A w \in Workers : wpc[w] = "exited" => werror[w] = "none"
    /\ TaskDoneForPoppedOnly

Blocked(w) == wpc[w] = "blocked"

\* The other workers have finished every job but the one worker w holds,
\* and main still waits in name_queue.join().
OthersDoneMainWaits(w) ==
    /\ Blocked(w)
    /\ name_queue = <<>>
    /\ \A j \in Submitted \ {wjob[w]} : Len(outcome[j]) = 1
    /\ outcome[wjob[w]] = <<>>
    /\ unfinished = 1
    /\ mainpc = "queue_join"
    /\ ~completed

\* C22: when one worker is held forever inside an external call and another
\* worker is started, the others pop and finish every remaining job, only the
\* held job stays unfinished, and main stays in the join from then on.
C22_BlockedWorkerHoldsJoin ==
    ((\E w \in Workers : Blocked(w)) /\ num_threads >= 2)
        ~> [](\E w \in Workers : OthersDoneMainWaits(w))

C22_Witness ==
    \E w \in Workers :
        /\ num_threads >= 2
        /\ total >= 2
        /\ OthersDoneMainWaits(w)
        /\ \E v \in Workers \ {w} : wpc[v] = "exited"

(***************************************************************************)
(* src/data_gen/ProcessGenerator.py                                        *)
(***************************************************************************)

Max(a, b) == IF a >= b THEN a ELSE b
Min(a, b) == IF a <= b THEN a ELSE b

\* The values a caller passes for min_nodes / max_nodes and for
\* min_connections / max_connections.
NodeArgs == 2..MaxNodes
ConnectionArgs == 0..MaxConnections

\* What the labeling service answers (already stripped of quotes and line
\* breaks, line 147); a request may also raise.
LabelerAnswers == {"Review Order", "START"}

\* f'Activity_{i}' (lines 67, 122, 170, 190).
ActivityName(i) == "Activity_" \o ToString(i)

Range(l) == {l[i] : i \in 1..Len(l)}

\* x in l / x not in l, for a Python list l.
InList(x, l) == \E i \in 1..Len(l) : l[i] = x

\* l.index(x): the first position of x, counted from 1.
Index(l, x) == CHOOSE i \in 1..Len(l) : l[i] = x /\ \A k \in 1..(i - 1) : l[k] # x

\* l.remove(x): l without the first occurrence of x.
ListRemove(l, x) ==
    LET i == Index(l, x)
    IN  SubSeq(l, 1, i - 1) \o SubSeq(l, i + 1, Len(l))

\* [x for x in l if x in S], order kept.
RECURSIVE Filter(_, _)
Filter(l, S) ==
    IF l = <<>> THEN <<>>
    ELSE IF Head(l) \in S THEN <<Head(l)>> \o Filter(Tail(l), S)
    ELSE Filter(Tail(l), S)

\* random.sample(population, k): every list of k distinct elements of it.
RECURSIVE Samples(_, _)
Samples(S, k) ==
    IF k = 0 THEN {<<>>}
    ELSE UNION {{<<x>> \o t : t \in Samples(S \ {x}, k - 1)} : x \in S}

\* __init__, lines 8-11, for the arguments a, b, c, d; lmstudio_connector is
\* given or None.
GraphInit ==
    /\ PoolIdle
    /\ TimeIdle
    /\ CaseIdle
    /\ JobIdle
    /\ ShareIdle
    /\ gpc = "generate_process"
    /\ \E a \in NodeArgs, b \in NodeArgs, c \in ConnectionArgs,
          d \in ConnectionArgs :
          /\ min_nodes = Max(3, a)
          /\ max_nodes = b
          /\ min_connections = Max(1, c)
          /\ max_connections = Max(Max(1, c), d)
    /\ lmstudio_connector \in BOOLEAN
    /\ nodes = <<>>
    /\ graph = <<>>
    /\ gi = 0
    /\ used_names = {"START", "END"}
    /\ node_mapping = <<>>
    /\ new_nodes = <<>>
    /\ requests = 0
    /\ replies = <<>>
    /\ asked = {}
    /\ repair_runs = 0
    /\ before_rerun = <<>>

\* A node list with num_nodes activities besides START and END.
CreatedNodesPlusTerminals(num_nodes) ==
    <<"START", "END">> \o [i \in 1..num_nodes |-> ActivityName(i)]

\* A node list in which END is created after the activities.
CreatedNodesEndLast(num_nodes) ==
    <<"START">> \o [i \in 1..(num_nodes - 2) |-> ActivityName(i)] \o <<"END">>

\* generate_process, lines 187-190: the nodes for num_nodes, in creation order.
CreatedNodes(num_nodes) ==
    <<"START", "END">> \o [i \in 1..(num_nodes - 2) |-> ActivityName(i)]

\* generate_process, lines 181-194: random.randint(min_nodes, max_nodes), the
\* node list and the empty adjacency lists.
GenerateNodes ==
    /\ gpc = "generate_process"
    /\ min_nodes <= max_nodes
    /\ \E num_nodes \in min_nodes..max_nodes :
          /\ nodes' = CreatedNodes(num_nodes)
          /\ graph' = [n \in Range(CreatedNodes(num_nodes)) |-> <<>>]
    /\ gi' = 1
    /\ gpc' = "connections"
    /\ UNCHANGED notgraph
    /\ UNCHANGED <<min_nodes, max_nodes, min_connections, max_connections,
                   lmstudio_connector, used_names, node_mapping, new_nodes,
                   requests, replies, asked, repair_runs, before_rerun>>

\* generate_process, line 185: random.randint(a, b) with a > b raises
\* ValueError, which leaves generate_process.
GenerateNodesRaises ==
    /\ gpc = "generate_process"
    /\ min_nodes > max_nodes
    /\ gpc' = "raised"
    /\ UNCHANGED notgraph
    /\ UNCHANGED <<min_nodes, max_nodes, min_connections, max_connections,
                   lmstudio_connector, nodes, graph, gi, used_names,
                   node_mapping, new_nodes, requests, replies, asked, repair_runs,
                   before_rerun>>

\* _generate_connections, line 26: self.nodes[i+1:], for the node at position i.
RemainingNodes(i) == SubSeq(nodes, i + 1, Len(nodes))

\* _generate_connections, lines 31-40: the target lists the node at position
\* i can draw.
ConnectionChoices(i) ==
    LET remaining_nodes == RemainingNodes(i)
        max_possible_connections == Len(remaining_nodes)
        actual_max_connections == Min(max_connections, max_possible_connections)
        min0 == Min(min_connections, max_possible_connections)
        actual_min_connections ==
            IF min0 > actual_max_connections THEN actual_max_connections ELSE min0
    IN  UNION {Samples(Range(remaining_nodes), num_connections) :
                   num_connections \in actual_min_connections..actual_max_connections}

\* _generate_connections, lines 21-41: one iteration of the loop over
\* enumerate(self.nodes).
GenerateConnections ==
    /\ gpc = "connections"
    /\ gi <= Len(nodes)
    /\ IF nodes[gi] = "END" \/ RemainingNodes(gi) = <<>>
         THEN UNCHANGED graph
         ELSE \E targets \in ConnectionChoices(gi) :
                  graph' = [graph EXCEPT ![nodes[gi]] = targets]
    /\ gi' = gi + 1
    /\ UNCHANGED notgraph
    /\ UNCHANGED <<gpc, min_nodes, max_nodes, min_connections, max_connections,
                   lmstudio_connector, nodes, used_names, node_mapping,
                   new_nodes, requests, replies, asked, repair_runs, before_rerun>>

\* generate_process, lines 197-200: _generate_connections has returned,
\* _ensure_valid_process is called.
ConnectionsGenerated ==
    /\ gpc = "connections"
    /\ gi > Len(nodes)
    /\ gpc' = "strip"
    /\ UNCHANGED notgraph
    /\ UNCHANGED <<min_nodes, max_nodes, min_connections, max_connections,
                   lmstudio_connector, nodes, graph, gi, used_names,
                   node_mapping, new_nodes, requests, replies, asked, repair_runs,
                   before_rerun>>

\* The variables _ensure_valid_process leaves alone.
repairfixed == <<min_nodes, max_nodes, min_connections, max_connections,
                 lmstudio_connector, used_names, node_mapping, new_nodes,
                 requests, replies, asked, repair_runs, before_rerun>>

\* A strip that forgets the edge START -> END.
StripTargetsKeepsEnd(node, targets) ==
    IF InList("START", targets) THEN ListRemove(targets, "START") ELSE targets

\* _ensure_valid_process, lines 51-54, for one item of self.graph.
StripTargets(node, targets) ==
    LET t1 == IF InList("START", targets)
                THEN ListRemove(targets, "START") ELSE targets
    IN  IF node = "START" /\ InList("END", t1) THEN ListRemove(t1, "END") ELSE t1

\* _ensure_valid_process, lines 50-58: strip the edges into START and the
\* edge START -> END, empty END's list.
RepairStrip ==
    /\ gpc = "strip"
    /\ graph' = [n \in DOMAIN graph |->
                    IF n = "END" THEN <<>> ELSE StripTargets(n, graph[n])]
    /\ gpc' = "start"
    /\ UNCHANGED notgraph
    /\ UNCHANGED <<nodes, gi>>
    /\ UNCHANGED repairfixed

\* l.insert(-1, x): x goes before the last element.
ListInsertBeforeLast(l, x) ==
    IF l = <<>> THEN <<x>>
    ELSE SubSeq(l, 1, Len(l) - 1) \o <<x>> \o <<l[Len(l)]>>

\* g[n] = targets, for a dict g.
DictSet(g, n, targets) ==
    [k \in DOMAIN g \cup {n} |-> IF k = n THEN targets ELSE g[k]]

\* [n for n in self.nodes if n not in ['START', 'END']] (lines 62, 117).
MiddleNodes == Filter(nodes, Range(nodes) \ {"START", "END"})

\* _ensure_valid_process, lines 60-70: START gets an outgoing edge.
RepairStart ==
    /\ gpc = "start"
    /\ IF graph["START"] # <<>>
         THEN UNCHANGED <<graph, nodes>>
         ELSE IF MiddleNodes # <<>>
         THEN /\ \E t \in Range(MiddleNodes) :
                     graph' = [graph EXCEPT !["START"] = <<t>>]
              /\ UNCHANGED nodes
         ELSE /\ nodes' = ListInsertBeforeLast(nodes, ActivityName(1))
              /\ graph' = DictSet(DictSet(graph, ActivityName(1), <<"END">>),
                                  "START", <<ActivityName(1)>>)
    /\ gi' = 1
    /\ gpc' = "activities"
    /\ UNCHANGED notgraph
    /\ UNCHANGED repairfixed

\* _ensure_valid_process, lines 79-81: the targets an activity without an
\* outgoing edge may be given.
PossibleTargets(node) ==
    LET later == Filter(nodes, {n \in Range(nodes) :
                     /\ n \notin {"START", node}
                     /\ Index(nodes, n) > Index(nodes, node)})
    IN  IF InList("END", later) /\ Len(later) > 1
          THEN ListRemove(later, "END") ELSE later

\* A pass that leaves a node without an outgoing edge as it is.
OutgoingFixesNone(g, node) == {g[node]}

\* _ensure_valid_process, lines 78-85: the lists the node may end up with.
OutgoingFixes(g, node) ==
    IF g[node] # <<>> THEN {g[node]}
    ELSE IF PossibleTargets(node) # <<>>
    THEN {<<t>> : t \in Range(PossibleTargets(node))}
    ELSE {<<"END">>}

\* A check that never finds an incoming edge.
HasIncomingNever(g, node) == FALSE

\* _ensure_valid_process, lines 88-92.
HasIncoming(g, node) == \E source \in DOMAIN g : InList(node, g[source])

\* Sources drawn from all the other nodes, whatever their position.
PossibleSourcesAnyPosition(node) ==
    Filter(nodes, {n \in Range(nodes) : n \notin {"END", node}})

\* _ensure_valid_process, line 95.
PossibleSources(node) ==
    Filter(nodes, {n \in Range(nodes) :
              /\ n \notin {"END", node}
              /\ Index(nodes, n) < Index(nodes, node)})

\* A pass that leaves a node without an incoming edge as it is.
IncomingFixesNone(g, node) == {g}

\* _ensure_valid_process, lines 94-101: the graphs the node may end up in.
IncomingFixes(g, node) ==
    IF HasIncoming(g, node) THEN {g}
    ELSE IF PossibleSources(node) # <<>>
    THEN {IF InList(node, g[source]) THEN g
          ELSE [g EXCEPT ![source] = Append(@, node)] :
              source \in Range(PossibleSources(node))}
    ELSE {[g EXCEPT !["START"] = Append(@, node)]}

\* _ensure_valid_process, lines 73-101: one iteration of the loop over
\* self.nodes.
RepairActivity ==
    /\ gpc = "activities"
    /\ gi <= Len(nodes)
    /\ IF nodes[gi] \in {"START", "END"}
         THEN UNCHANGED graph
         ELSE \E targets \in OutgoingFixes(graph, nodes[gi]) :
                  graph' \in IncomingFixes(
                      [graph EXCEPT ![nodes[gi]] = targets], nodes[gi])
    /\ gi' = gi + 1
    /\ UNCHANGED notgraph
    /\ UNCHANGED <<gpc, nodes>>
    /\ UNCHANGED repairfixed

\* The loop over self.nodes has ended.
RepairActivitiesDone ==
    /\ gpc = "activities"
    /\ gi > Len(nodes)
    /\ gpc' = "path_to_end"
    /\ UNCHANGED notgraph
    /\ UNCHANGED <<nodes, graph, gi>>
    /\ UNCHANGED repairfixed

\* _ensure_valid_process, lines 104-108.
HasPathToEnd(g) ==
    \E node \in DOMAIN g : node # "START" /\ InList("END", g[node])

\* _ensure_valid_process, line 112: the nodes of self.nodes[1:-1] without an
\* outgoing edge.
LastNodes(g) ==
    Filter(SubSeq(nodes, 2, Len(nodes) - 1), {n \in Range(nodes) : g[n] = <<>>})

\* _ensure_valid_process, lines 103-125: some node other than START points to
\* END; the pass returns.
RepairPathToEnd ==
    /\ gpc = "path_to_end"
    /\ IF HasPathToEnd(graph)
         THEN UNCHANGED <<graph, nodes>>
         ELSE IF LastNodes(graph) # <<>>
         THEN /\ graph' = [graph EXCEPT
                     ![LastNodes(graph)[Len(LastNodes(graph))]] = Append(@, "END")]
              /\ UNCHANGED nodes
         ELSE IF MiddleNodes # <<>>
         THEN /\ graph' = [graph EXCEPT
                     ![MiddleNodes[Len(MiddleNodes)]] = Append(@, "END")]
              /\ UNCHANGED nodes
         ELSE /\ nodes' = ListInsertBeforeLast(nodes, ActivityName(1))
              /\ graph' = DictSet(DictSet(graph, ActivityName(1), <<"END">>),
                                  "START", <<ActivityName(1)>>)
    /\ repair_runs' = repair_runs + 1
    /\ gi' = 1
    /\ gpc' = IF repair_runs >= 1 THEN "repaired_again"
              ELSE "repaired"
    /\ UNCHANGED notgraph
    /\ UNCHANGED <<min_nodes, max_nodes, min_connections, max_connections,
                   lmstudio_connector, used_names, node_mapping, new_nodes,
                   requests, replies, asked, before_rerun>>

\* f"{base_name} {counter}" (line 158).
Numbered(base_name, counter) == base_name \o " " \o ToString(counter)

\* _get_activity_name, lines 164-172: the request raised; the name is
\* Activity_<counter> for the smallest counter >= 1 not in used.
FallbackName(used) ==
    ActivityName(CHOOSE c \in 1..(Cardinality(used) + 1) :
        /\ ActivityName(c) \notin used
        /\ \A k \in 1..(c - 1) : ActivityName(k) \in used)

\* _get_activity_name, lines 154-159: the third answer is used too; the name
\* is "<base_name> <counter>" for the smallest counter >= 1 not in used.
Disambiguated(used, base_name) ==
    Numbered(base_name, CHOOSE c \in 1..(Cardinality(used) + 1) :
        /\ Numbered(base_name, c) \notin used
        /\ \A k \in 1..(c - 1) : Numbered(base_name, k) \in used)

\* What a request brought: the cleaned text of line 147, or an exception.
Answered(text) == [ok |-> TRUE, text |-> text]
Raised == [ok |-> FALSE, text |-> ""]

\* A routine that asks once more after the third attempt.
RetryAllowedFourth(attempt) == attempt < 4

\* _get_activity_name, line 151.
RetryAllowed(attempt) == attempt < 3

\* _get_activity_name, lines 144-172, after the replies got so far (attempt
\* is their number plus one): every <<name returned, replies got>> the
\* labeler's answers can lead to.
RECURSIVE GetActivityName(_, _)
GetActivityName(used, got) ==
    LET attempt == Len(got) + 1
    IN  {<<FallbackName(used), Append(got, Raised)>>}
        \cup {<<a, Append(got, Answered(a))>> : a \in LabelerAnswers \ used}
        \cup UNION {IF RetryAllowed(attempt)
                    THEN GetActivityName(used, Append(got, Answered(a)))
                    ELSE {<<Disambiguated(used, a), Append(got, Answered(a))>>} :
                    a \in LabelerAnswers \cap used}

\* A set of used names that forgets the new one.
UsedAfterForgets(used, name) == used

\* _get_activity_name, lines 161 and 171: self.used_names.add(name).
UsedAfter(used, name) == used \cup {name}

\* generate_process, line 203, without a connector: line 239 returns the
\* repaired graph.
ReturnRepaired ==
    /\ gpc = "repaired"
    /\ ~lmstudio_connector
    /\ gpc' = "returned"
    /\ UNCHANGED notgraph
    /\ UNCHANGED <<nodes, graph, gi>>
    /\ UNCHANGED repairfixed

\* generate_process, lines 203-211.
RelabelBegin ==
    /\ gpc = "repaired"
    /\ lmstudio_connector
    /\ new_nodes' = <<"START", "END">>
    /\ node_mapping' = [n \in {"START", "END"} |-> n]
    /\ gi' = 1
    /\ gpc' = "relabel"
    /\ UNCHANGED notgraph
    /\ UNCHANGED <<min_nodes, max_nodes, min_connections, max_connections,
                   lmstudio_connector, nodes, graph, used_names, requests, replies, asked,
                   repair_runs, before_rerun>>

\* generate_process, lines 214-229: one iteration of the loop over
\* self.nodes, with the whole of _get_activity_name for a middle node.
RelabelNode ==
    /\ gpc = "relabel"
    /\ gi <= Len(nodes)
    /\ IF nodes[gi] \in {"START", "END"}
         THEN UNCHANGED <<used_names, node_mapping, new_nodes, requests,
                          replies, asked>>
         ELSE \E r \in GetActivityName(used_names, <<>>) :
                  /\ used_names' = UsedAfter(used_names, r[1])
                  /\ node_mapping' = DictSet(node_mapping, nodes[gi], r[1])
                  /\ new_nodes' = Append(new_nodes, r[1])
                  /\ requests' = Len(r[2])
                  /\ replies' = r[2]
                  /\ asked' = asked \cup {nodes[gi]}
    /\ gi' = gi + 1
    /\ UNCHANGED notgraph
    /\ UNCHANGED <<gpc, min_nodes, max_nodes, min_connections, max_connections,
                   lmstudio_connector, nodes, graph, repair_runs, before_rerun>>

\* A rebuild that lists the renamed successors of each node last to first.
RelabeledReversed(g, mapping) ==
    [new_node \in {mapping[old] : old \in DOMAIN g} |->
        LET old_node == CHOOSE old \in DOMAIN g : mapping[old] = new_node
        IN  [i \in 1..Len(g[old_node]) |->
                mapping[g[old_node][Len(g[old_node]) + 1 - i]]]]

\* generate_process, lines 232-234: new_graph.  Two old nodes with the same
\* new name leave one key, holding the list of the one the loop meets last.
Relabeled(g, mapping) ==
    [new_node \in {mapping[old] : old \in DOMAIN g} |->
        LET old_node == CHOOSE old \in DOMAIN g :
                /\ mapping[old] = new_node
                /\ \A o \in DOMAIN g :
                       mapping[o] = new_node => Index(nodes, o) <= Index(nodes, old)
        IN  [i \in 1..Len(g[old_node]) |-> mapping[g[old_node][i]]]]

\* generate_process, lines 231-239: the graph is rebuilt under the new names
\* and returned.
RelabelFinish ==
    /\ gpc = "relabel"
    /\ gi > Len(nodes)
    /\ graph' = Relabeled(graph, node_mapping)
    /\ nodes' = new_nodes
    /\ gpc' = "returned"
    /\ replies' = <<>>
    /\ UNCHANGED notgraph
    /\ UNCHANGED <<gi, min_nodes, max_nodes, min_connections, max_connections,
                   lmstudio_connector, used_names, node_mapping, new_nodes,
                   requests, asked, repair_runs, before_rerun>>

\* _ensure_valid_process is called once more, on the graph generate_process
\* returned.
RepairAgain ==
    /\ gpc = "returned"
    /\ repair_runs = 1
    /\ before_rerun' = <<graph, nodes>>
    /\ gpc' = "strip"
    /\ UNCHANGED notgraph
    /\ UNCHANGED <<min_nodes, max_nodes, min_connections, max_connections,
                   lmstudio_connector, nodes, graph, gi, used_names,
                   node_mapping, new_nodes, requests, replies, asked, repair_runs>>

GraphNext ==
    \/ GenerateNodes
    \/ GenerateNodesRaises
    \/ GenerateConnections
    \/ ConnectionsGenerated
    \/ RepairStrip
    \/ RepairStart
    \/ RepairActivity
    \/ RepairActivitiesDone
    \/ RepairPathToEnd
    \/ ReturnRepaired
    \/ RelabelBegin
    \/ RelabelNode
    \/ RelabelFinish
    \/ RepairAgain

GraphSpec == GraphInit /\ [][GraphNext]_vars

(***************************************************************************)
(* Claims about the graphs generate_process returns                        *)
(***************************************************************************)

Returned == gpc = "returned"
Activities == Range(nodes) \ {"START", "END"}
Edge(g, u, v) == u \in DOMAIN g /\ InList(v, g[u])
Incoming(g, v) == {u \in DOMAIN g : Edge(g, u, v)}

\* The nodes reachable from the set S along the edges of g (S included).
RECURSIVE Reach(_, _)
Reach(g, S) ==
    LET T == S \cup {v \in UNION {Range(g[u]) : u \in S \cap DOMAIN g} : TRUE}
    IN  IF T = S THEN S ELSE Reach(g, T)

\* The nodes reachable from n along at least one edge.
ReachPlus(g, n) == Reach(g, Range(g[n]))

Acyclic(g) == \A n \in DOMAIN g : n \notin ReachPlus(g, n)

\* C5: in every returned graph START has no incoming edge and no edge to
\* END, and END has no outgoing edge.
C5_StartEndShape ==
    Returned =>
        /\ {"START", "END"} \subseteq DOMAIN graph
        /\ Incoming(graph, "START") = {}
        /\ ~Edge(graph, "START", "END")
        /\ graph["END"] = <<>>

\* A graph without relabeling whose START points to two activities.
C5_Witness ==
    /\ Returned
    /\ ~lmstudio_connector
    /\ Len(graph["START"]) = 2
    /\ Len(nodes) >= 4

\* C6: in every returned graph every node other than START and END has an
\* incoming and an outgoing edge.
C6_ActivitiesConnected ==
    Returned =>
        /\ DOMAIN graph = Range(nodes)
        /\ Activities # {}
        /\ \A n \in Activities : Incoming(graph, n) # {} /\ graph[n] # <<>>

\* A relabeled graph with an activity that has two incoming edges.
C6_Witness ==
    /\ Returned
    /\ lmstudio_connector
    /\ \E n \in Activities : Cardinality(Incoming(graph, n)) >= 2

\* C7: in every returned graph every node is reachable from START and END
\* is reachable from every node.
C7_Reachability ==
    Returned =>
        \A n \in Range(nodes) \cup DOMAIN graph :
            /\ n \in Reach(graph, {"START"})
            /\ "END" \in Reach(graph, {n})

\* A returned graph with an activity START reaches only through another one.
C7_Witness ==
    /\ Returned
    /\ \E n \in Activities :
          /\ ~Edge(graph, "START", n)
          /\ n \in Reach(graph, {"START"})

\* C8: no step of the generation, the repair or the relabeling leaves a
\* directed cycle (a self-loop included) in the graph.
C8_NoCycle == Acyclic(graph)

\* A returned graph in which two paths of different length reach a node.
C8_Witness ==
    /\ Returned
    /\ \E a, b \in Activities :
          /\ a # b
          /\ Edge(graph, "START", a)
          /\ Edge(graph, "START", b)
          /\ Edge(graph, a, b)

\* C9: _ensure_valid_process run again on a graph generate_process returned
\* (the graph its first run produced, relabeled or not) changes neither the
\* edges nor the nodes, whatever it draws.
C9_RepairIdempotent ==
    gpc = "repaired_again" => <<graph, nodes>> = before_rerun

\* The second run has ended on a graph with at least two activities.
C9_Witness ==
    /\ gpc = "repaired_again"
    /\ repair_runs = 2
    /\ Cardinality(Activities) >= 2

\* C15: the graph returned, relabeled or not, has between min_nodes (3 at
\* least) and max_nodes nodes, START and END counted: as many keys as the
\* node list has items, and exactly min_nodes of them when the two limits are
\* equal.
C15_NodeCount ==
    Returned =>
        /\ min_nodes >= 3
        /\ min_nodes <= Len(nodes) /\ Len(nodes) <= max_nodes
        /\ DOMAIN graph = Range(nodes)
        /\ Cardinality(DOMAIN graph) = Len(nodes)
        /\ min_nodes = max_nodes => Cardinality(DOMAIN graph) = min_nodes

\* A relabeled graph was returned for equal limits above 3 and out-degree
\* limits 1 and 2.
C15_Witness ==
    /\ Returned
    /\ lmstudio_connector
    /\ min_nodes = max_nodes
    /\ min_nodes > 3
    /\ min_connections = 1
    /\ max_connections = 2
    /\ Cardinality(DOMAIN graph) = min_nodes

\* C16: whatever the arguments (node limits below 3 or inverted, out-degree
\* limits below 1 or inverted), generate_process raises nothing.
C16_NoErrorSurfaces == gpc # "raised"

\* C18: the labels of a relabeled graph are pairwise distinct, as many as
\* there were nodes; START and END are among them under their own names, and
\* no name is ever requested for them, whatever the labeler answers.
C18_LabelsDistinct ==
    /\ asked \cap {"START", "END"} = {}
    /\ (Returned /\ lmstudio_connector) =>
          /\ \A i \in 1..Len(nodes), j \in 1..Len(nodes) :
                nodes[i] = nodes[j] => i = j
          /\ DOMAIN graph = Range(nodes)
          /\ Cardinality(DOMAIN graph) = Cardinality(DOMAIN node_mapping)
          /\ {"START", "END"} \subseteq DOMAIN graph
          /\ node_mapping["START"] = "START"
          /\ node_mapping["END"] = "END"
          /\ \A old \in DOMAIN node_mapping \ {"START", "END"} :
                node_mapping[old] \notin {"START", "END"}
          /\ asked = DOMAIN node_mapping \ {"START", "END"}

\* A relabeled graph was returned in which one activity has the name the
\* labeler gave and another the same name with a counter, after the labeler
\* repeated itself three times.
C18_Witness ==
    /\ Returned
    /\ lmstudio_connector
    /\ requests = 3
    /\ "Review Order" \in DOMAIN graph
    /\ "Review Order 1" \in DOMAIN graph

\* The name given to the node named last, and the names used before it.
LastName == new_nodes[Len(new_nodes)]
UsedBefore == used_names \ {LastName}

\* C19: naming a node takes one to three requests; every reply but the last
\* was a name already used; a last reply that failed gives Activity_<k>, one
\* that is a fresh name gives that name, and one that is a used name is the
\* third and gives "<name> <k>", k being the smallest number from 1 on that
\* makes a name not used before.
C19_NamingBounded ==
    (gpc = "relabel" /\ replies # <<>>) =>
        LET n == Len(replies)
            last == replies[n]
        IN  /\ n \in 1..3
            /\ requests = n
            /\ \A i \in 1..(n - 1) :
                  replies[i].ok /\ replies[i].text \in UsedBefore
            /\ ~last.ok =>
                  \E k \in 1..(Cardinality(UsedBefore) + 1) :
                     /\ LastName = ActivityName(k)
                     /\ LastName \notin UsedBefore
                     /\ \A m \in 1..(k - 1) : ActivityName(m) \in UsedBefore
            /\ (last.ok /\ last.text \notin UsedBefore) => LastName = last.text
            /\ (last.ok /\ last.text \in UsedBefore) =>
                  /\ n = 3
                  /\ \E k \in 1..(Cardinality(UsedBefore) + 1) :
                        /\ LastName = Numbered(last.text, k)
                        /\ LastName \notin UsedBefore
                        /\ \A m \in 1..(k - 1) :
                              Numbered(last.text, m) \in UsedBefore

\* A node was named after three replies that were all names already used:
\* it has the last of them with the counter 1.
C19_Witness ==
    /\ gpc = "relabel"
    /\ Len(replies) = 3
    /\ replies[3].ok
    /\ replies[1].text # replies[3].text
    /\ replies[3].text \in UsedBefore
    /\ LastName = Numbered(replies[3].text, 1)

\* C20: while the edges are generated the node list is START, the
\* activities, END last; END is among the later nodes of every other node;
\* and every node the pass is done with has distinct targets, all of them
\* later nodes, as many as min(min_connections, r) to min(max_connections, r)
\* for its r later nodes.
C20_EndCreatedLast ==
    gpc = "connections" =>
        /\ nodes[1] = "START"
        /\ nodes[Len(nodes)] = "END"
        /\ \A i \in 1..Len(nodes) :
              nodes[i] # "END" => InList("END", RemainingNodes(i))
        /\ \A i \in 1..(gi - 1) :
              nodes[i] # "END" =>
                 LET r == Len(nodes) - i
                     targets == graph[nodes[i]]
                 IN  /\ Range(targets) \subseteq Range(RemainingNodes(i))
                     /\ Cardinality(Range(targets)) = Len(targets)
                     /\ Min(min_connections, r) <= Len(targets)
                     /\ Len(targets) <= Min(max_connections, r)

\* m is one-to-one on the nodes, and h is g with every node u renamed m[u]:
\* the same keys, and under each key the same successors in the same order.
RenamedBy(m, g, h) ==
    /\ \A u \in DOMAIN m, v \in DOMAIN m : m[u] = m[v] => u = v
    /\ DOMAIN g \subseteq DOMAIN m
    /\ DOMAIN h = {m[u] : u \in DOMAIN g}
    /\ \A u \in DOMAIN g :
          /\ Len(h[m[u]]) = Len(g[u])
          /\ \A i \in 1..Len(g[u]) : h[m[u]][i] = m[g[u][i]]

\* C25: the relabeling pass changes names only: the mapping it built is
\* one-to-one, the returned graph has the edge m(u) -> m(v) exactly when the
\* repaired graph had u -> v, successors in the same order, and the node list
\* is the old one renamed.
C25_RelabelingRenamesOnly ==
    [][(gpc = "relabel" /\ gpc' = "returned") =>
          /\ DOMAIN node_mapping = Range(nodes)
          /\ RenamedBy(node_mapping, graph, graph')
          /\ \A u \in Range(nodes), v \in Range(nodes) :
                Edge(graph, u, v) <=> Edge(graph', node_mapping[u], node_mapping[v])
          /\ nodes' = [i \in 1..Len(nodes) |-> node_mapping[nodes[i]]]]_vars

\* A relabeled graph was returned in which an activity took the old name of
\* another one, and a node has two successors.
C25_Witness ==
    /\ Returned
    /\ lmstudio_connector
    /\ repair_runs = 1
    /\ \E u \in DOMAIN node_mapping, v \in DOMAIN node_mapping :
          u # v /\ node_mapping[u] = v
    /\ \E u \in DOMAIN node_mapping : node_mapping[u] \notin {u, "Activity_1", "Activity_2"}
    /\ \E u \in DOMAIN graph : Len(graph[u]) = 2

\* The activity created last (generate_process, line 190): the last item of
\* the node list, which the relabeling keeps last.
LastCreated == nodes[Len(nodes)]

\* The graph g without node n and the edges into it.
Without(g, n) ==
    [u \in DOMAIN g \ {n} |-> SelectSeq(g[u], LAMBDA v : v # n)]

\* C26: in every returned graph END has exactly one incoming edge, it comes
\* from the activity created last, and START does not reach END once that
\* activity is taken out.
C26_EndEnteredFromLast ==
    Returned =>
        /\ LastCreated \in Activities
        /\ Incoming(graph, "END") = {LastCreated}
        /\ Len(SelectSeq(graph[LastCreated], LAMBDA v : v = "END")) = 1
        /\ "END" \notin Reach(Without(graph, LastCreated), {"START"})

\* A returned graph whose START has an edge to an activity that is not the
\* last one.
C26_Witness ==
    /\ Returned
    /\ Cardinality(Activities) >= 2
    /\ \E a \in Activities : a # LastCreated /\ Edge(graph, "START", a)
    /\ graph[LastCreated] = <<"END">>

(***************************************************************************)
(* src/data_gen/ProcessDataGenerator.py: _generate_timestamp               *)
(*                                                                         *)
(* A datetime is the number of minutes since 00:00 of a Monday; seconds    *)
(* and microseconds pass through replace() and timedelta unchanged and are *)
(* left out.                                                               *)
(***************************************************************************)

\* datetime.hour, datetime.minute, datetime.weekday() (Monday is 0).
Hour(t) == (t % 1440) \div 60
Minute(t) == t % 60
Weekday(t) == (t \div 1440) % 7

\* t.replace(hour=h, minute=m).
Replace(t, h, m) == (t \div 1440) * 1440 + h * 60 + m

\* t + timedelta(days=d).
PlusDays(t, d) == t + d * 1440

\* The base instants and durations the function is called with: every hour
\* of the days 0..MaxDay at a few minutes of the hour; no duration, the
\* shortest and the longest duration of an activity (line 126), and some
\* longer ones.
BaseMinutes == {0, 45, 59}
BaseTimes ==
    {d * 1440 + h * 60 + m : d \in 0..MaxDay, h \in 0..23, m \in BaseMinutes}
Durations == {0, 30, 480, 1440, 4000}

TimeInit ==
    /\ PoolIdle
    /\ GraphIdle
    /\ CaseIdle
    /\ JobIdle
    /\ ShareIdle
    /\ tpc = "call"
    /\ base_time \in BaseTimes
    /\ activity_duration \in Durations
    /\ current_time = 0
    /\ rolls = 0

\* _generate_timestamp, line 146.
TimestampAdd ==
    /\ tpc = "call"
    /\ current_time' = base_time + activity_duration
    /\ tpc' = "while"
    /\ UNCHANGED nottime
    /\ UNCHANGED <<base_time, activity_duration, rolls>>

\* A loop condition that looks at the hour only.
OutsideWorkingTimeHourOnly(t) == Hour(t) \notin 9..17

\* _generate_timestamp, lines 144 and 149: the condition of the while loop.
OutsideWorkingTime(t) == Hour(t) \notin 9..17 \/ Weekday(t) >= 5

\* _generate_timestamp, lines 150-154.
SnapToOpening(t) ==
    IF Hour(t) >= 18 THEN PlusDays(Replace(t, 9, 0), 1)
    ELSE IF Hour(t) < 9 THEN Replace(t, 9, 0)
    ELSE t

\* A weekend instant that is left where it is.
SkipWeekendStays(t) == t

\* _generate_timestamp, lines 156-157.
SkipWeekend(t) ==
    IF Weekday(t) >= 5 THEN PlusDays(t, 8 - Weekday(t)) ELSE t

\* _generate_timestamp, lines 149-157: one iteration of the while loop.  The
\* loop has no counter; rolls counts its iterations and the model follows at
\* most MaxRolls of them.
TimestampRoll ==
    /\ tpc = "while"
    /\ OutsideWorkingTime(current_time)
    /\ rolls < MaxRolls
    /\ current_time' = SkipWeekend(SnapToOpening(current_time))
    /\ rolls' = rolls + 1
    /\ UNCHANGED nottime
    /\ UNCHANGED <<tpc, base_time, activity_duration>>

\* _generate_timestamp, line 159.
TimestampReturn ==
    /\ tpc = "while"
    /\ ~OutsideWorkingTime(current_time)
    /\ tpc' = "returned"
    /\ UNCHANGED nottime
    /\ UNCHANGED <<base_time, activity_duration, current_time, rolls>>

TimeNext == TimestampAdd \/ TimestampRoll \/ TimestampReturn

TimeSpec == TimeInit /\ [][TimeNext]_vars

\* A call that has begun keeps running: the function shares nothing and
\* waits for nothing.
TimeFairSpec == TimeSpec /\ WF_vars(TimeNext)

(***************************************************************************)
(* Claims about _generate_timestamp                                        *)
(***************************************************************************)

\* C10: for every base instant and every duration >= 0 the instant returned
\* has its hour in [9, 18) and falls on a Monday to Friday.
C10_ReturnedInWorkingTime ==
    tpc = "returned" =>
        /\ 9 <= Hour(current_time) /\ Hour(current_time) < 18
        /\ Weekday(current_time) \in 0..4

\* A call whose naive instant fell on a weekend after closing time has
\* returned.
C10_Witness ==
    /\ tpc = "returned"
    /\ Weekday(base_time + activity_duration) >= 5
    /\ Hour(base_time + activity_duration) >= 18
    /\ activity_duration > 0
    /\ rolls >= 1

\* C11: the instant returned is the naive instant base + duration taken
\* through the rollover rule: an hour >= 18 goes to 09:00 of the next
\* calendar day, an hour < 9 to 09:00 of the same day, and an instant that
\* is then on a Saturday or Sunday goes to 09:00 of the Monday that follows;
\* Friday 17:45 (day 4) advanced by 30 minutes gives Monday (day 7) 09:00.
C11_RolloverRule ==
    tpc = "returned" =>
        LET naive == base_time + activity_duration
            snapped == IF Hour(naive) >= 18 THEN PlusDays(Replace(naive, 9, 0), 1)
                       ELSE IF Hour(naive) < 9 THEN Replace(naive, 9, 0)
                       ELSE naive
            monday == PlusDays(Replace(snapped, 9, 0), 7 - Weekday(snapped))
            expected == IF Weekday(snapped) >= 5 THEN monday ELSE snapped
        IN  /\ current_time = expected
            /\ (base_time = 4 * 1440 + 17 * 60 + 45 /\ activity_duration = 30)
                   => current_time = 7 * 1440 + 9 * 60

\* C12: every call returns; the loop runs a bounded number of iterations
\* (one at most, below the MaxRolls the model follows), and an iteration
\* moves the clock forward, by one snap to 09:00 (the next day at most) and
\* one weekend skip (3 days at most).
C12_LoopTerminates ==
    /\ <>(tpc = "returned")
    /\ [](rolls <= 1 /\ rolls < MaxRolls)
    /\ [][rolls' # rolls =>
            /\ current_time' > current_time
            /\ (current_time' \div 1440) - (current_time \div 1440) <= 1 + 3
            /\ current_time' \in
                  { SnapToOpening(current_time),
                    PlusDays(SnapToOpening(current_time),
                             8 - Weekday(SnapToOpening(current_time))) }]_vars

\* A call has returned after an iteration that both snapped a Friday evening
\* to the next day and skipped the weekend it then fell on.
C12_Witness ==
    /\ tpc = "returned"
    /\ rolls = 1
    /\ Weekday(base_time + activity_duration) = 4
    /\ Hour(base_time + activity_duration) >= 18
    /\ Weekday(current_time) \in 0..4

(***************************************************************************)
(* src/data_gen/ProcessDataGenerator.py: generate_data                     *)
(*                                                                         *)
(* The process graph is the one generate_process returned, as in           *)
(* generator.py lines 36-45: CaseSpec runs generate_process and then       *)
(* generate_data on self.graph.  An event keeps the columns the walk and   *)
(* the clock decide; the other columns are drawn independently of them.    *)
(***************************************************************************)

\* _generate_timestamp as a function: line 146, then the loop of lines
\* 149-157 for at most n iterations.
RECURSIVE Rolled(_, _)
Rolled(t, n) ==
    IF OutsideWorkingTime(t) /\ n > 0
    THEN Rolled(SkipWeekend(SnapToOpening(t)), n - 1)
    ELSE t

GenerateTimestamp(base, duration) == Rolled(base + duration, MaxRolls)

\* Line 184: an instant between start_date and end_date; here a Friday at
\* 17:45, which the first event of the case takes over the weekend.
CaseStarts == {4 * 1440 + 17 * 60 + 45}

\* Line 126: duration_minutes is drawn from 30..480; here the longest, which
\* ends an event now inside the working day and now after it.
EventDurations == {480}

\* The widest arguments within the bounds: every graph that generate_process
\* returns for arguments within the bounds is returned for these.
CaseInit ==
    /\ GraphInit
    /\ min_nodes = 3
    /\ max_nodes = MaxNodes
    /\ min_connections = 1
    /\ max_connections = MaxConnections

\* generate_data, lines 175-181, on the graph generate_process returned.
GenerateDataBegin ==
    /\ gpc = "returned"
    /\ cpc = "idle"
    /\ cpc' = "case_path"
    /\ num_cases' \in 1..MaxCases
    /\ case_id' = 1
    /\ path' = <<"START">>
    /\ events' = <<>>
    /\ UNCHANGED <<pi, case_time>>
    /\ UNCHANGED <<notcase, graphvars>>

\* A walk that may go on to any node.
PossibleNextAnyNode(current) == nodes

\* _generate_case_path, line 167.
PossibleNext(current) == graph[current]

\* _generate_case_path, lines 166-169: one iteration of the walk.  A node
\* without successors makes random.choice raise IndexError.  The walk has no
\* counter; the model follows it for one step more than there are nodes.
CasePathStep ==
    /\ cpc = "case_path"
    /\ path[Len(path)] # "END"
    /\ Len(path) <= Len(nodes)
    /\ LET current == path[Len(path)]
       IN  IF current \notin DOMAIN graph \/ PossibleNext(current) = <<>>
           THEN /\ cpc' = "raised"
                /\ UNCHANGED path
           ELSE /\ \E next \in Range(PossibleNext(current)) :
                     path' = Append(path, next)
                /\ UNCHANGED cpc
    /\ UNCHANGED <<num_cases, case_id, pi, case_time, events>>
    /\ UNCHANGED <<notcase, graphvars>>

\* _generate_case_path, line 171, and generate_data, lines 184-186.
CasePathReturn ==
    /\ cpc = "case_path"
    /\ path[Len(path)] = "END"
    /\ cpc' = "events"
    /\ case_time' \in CaseStarts
    /\ pi' = 1
    /\ UNCHANGED <<num_cases, case_id, path, events>>
    /\ UNCHANGED <<notcase, graphvars>>

\* A clock that stays at the start of the event.
ClockAtEventStart(timestamp, complete_timestamp) == timestamp

\* generate_data, line 195.
ClockAfterEvent(timestamp, complete_timestamp) == complete_timestamp

\* generate_data, lines 186-205: one iteration of the loop over path.
CaseEvent ==
    /\ cpc = "events"
    /\ pi <= Len(path)
    /\ pi' = pi + 1
    /\ IF path[pi] \in {"START", "END"}
       THEN UNCHANGED <<case_time, events>>
       ELSE \E duration_minutes \in EventDurations :
              LET timestamp == GenerateTimestamp(case_time, 0)
                  complete_timestamp ==
                      GenerateTimestamp(timestamp, duration_minutes)
              IN  /\ case_time' = ClockAfterEvent(timestamp, complete_timestamp)
                  /\ events' = Append(events,
                         [case_id |-> case_id,
                          activity |-> path[pi],
                          timestamp |-> timestamp,
                          complete_timestamp |-> complete_timestamp])
    /\ UNCHANGED <<cpc, num_cases, case_id, path>>
    /\ UNCHANGED <<notcase, graphvars>>

\* generate_data, lines 179-181 and 207: the next case, or the end of the
\* loop over the cases.
CaseEnd ==
    /\ cpc = "events"
    /\ pi > Len(path)
    /\ IF case_id < num_cases
       THEN /\ case_id' = case_id + 1
            /\ path' = <<"START">>
            /\ cpc' = "case_path"
       ELSE /\ cpc' = "sort"
            /\ UNCHANGED <<case_id, path>>
    /\ UNCHANGED <<num_cases, pi, case_time, events>>
    /\ UNCHANGED <<notcase, graphvars>>

\* The order of sort_values(['case_id', 'timestamp']): 'CASE_%05d' orders
\* as the case number does.
EventBefore(a, b) ==
    \/ a.case_id < b.case_id
    \/ a.case_id = b.case_id /\ a.timestamp < b.timestamp

InsertEvent(sorted, e) ==
    LET k == Cardinality({i \in 1..Len(sorted) : ~EventBefore(e, sorted[i])})
    IN  SubSeq(sorted, 1, k) \o <<e>> \o SubSeq(sorted, k + 1, Len(sorted))

RECURSIVE SortValues(_)
SortValues(evs) ==
    IF evs = <<>> THEN <<>>
    ELSE InsertEvent(SortValues(SubSeq(evs, 1, Len(evs) - 1)), evs[Len(evs)])

\* generate_data, lines 210-213.
GenerateDataReturn ==
    /\ cpc = "sort"
    /\ events' = SortValues(events)
    /\ cpc' = "returned"
    /\ UNCHANGED <<num_cases, case_id, path, pi, case_time>>
    /\ UNCHANGED <<notcase, graphvars>>

CaseNext ==
    \/ GenerateNodes
    \/ GenerateConnections
    \/ ConnectionsGenerated
    \/ RepairStrip
    \/ RepairStart
    \/ RepairActivity
    \/ RepairActivitiesDone
    \/ RepairPathToEnd
    \/ ReturnRepaired
    \/ RelabelBegin
    \/ RelabelNode
    \/ RelabelFinish
    \/ GenerateDataBegin
    \/ CasePathStep
    \/ CasePathReturn
    \/ CaseEvent
    \/ CaseEnd
    \/ GenerateDataReturn

CaseSpec == CaseInit /\ [][CaseNext]_vars

(***************************************************************************)
(* Claims about generate_data                                              *)
(***************************************************************************)

\* The rows of a case in events, and their activities, in order.
CaseRows(c) == SelectSeq(events, LAMBDA e : e.case_id = c)
RowActivities(rows) == [i \in 1..Len(rows) |-> rows[i].activity]
NonTerminal(p) == SelectSeq(p, LAMBDA n : n \notin {"START", "END"})

\* C13: every event starts no later than it completes; of two consecutive
\* events of a case the later starts no earlier than the earlier completes;
\* while a case is processed its clock is at the completion of its last event.
C13_EventsInOrder ==
    /\ \A i \in 1..Len(events) :
          events[i].timestamp <= events[i].complete_timestamp
    /\ \A c \in 1..MaxCases :
          \A i \in 1..(Len(CaseRows(c)) - 1) :
             CaseRows(c)[i + 1].timestamp >= CaseRows(c)[i].complete_timestamp
    /\ (cpc = "events" /\ CaseRows(case_id) # <<>>) =>
          case_time = CaseRows(case_id)[Len(CaseRows(case_id))].complete_timestamp

\* The frame was returned with two cases, one of them with two events, the
\* first of which ran over a weekend.
C13_Witness ==
    /\ cpc = "returned"
    /\ num_cases = 2
    /\ \E c \in 1..2 :
          /\ Len(CaseRows(c)) >= 2
          /\ Weekday(CaseRows(c)[1].timestamp) = 4
          /\ Weekday(CaseRows(c)[1].complete_timestamp) < 4
          /\ CaseRows(c)[2].timestamp = CaseRows(c)[1].complete_timestamp

\* p is a walk of the graph from START that meets END only as its last node.
IsWalk(p) ==
    /\ p # <<>>
    /\ p[1] = "START"
    /\ \A i \in 1..(Len(p) - 1) : p[i] # "END" /\ Edge(graph, p[i], p[i + 1])

\* C14: the walk never raises, visits no node twice (so it is no longer than
\* the node list) and is over only at END; the events of the case are the
\* non-terminal nodes of the path walked so far, in path order, and so are
\* the rows of every case in the frame returned.
C14_WalkEndsAtEnd ==
    /\ cpc # "raised"
    /\ cpc \in {"case_path", "events", "sort", "returned"} =>
          /\ IsWalk(path)
          /\ \A i \in 1..Len(path), j \in 1..Len(path) :
                path[i] = path[j] => i = j
          /\ Len(path) <= Len(nodes)
          /\ cpc # "case_path" => path[Len(path)] = "END"
    /\ cpc = "case_path" => CaseRows(case_id) = <<>>
    /\ cpc = "events" =>
          RowActivities(CaseRows(case_id)) = NonTerminal(SubSeq(path, 1, pi - 1))
    /\ cpc \in {"sort", "returned"} =>
          /\ case_id = num_cases
          /\ RowActivities(CaseRows(case_id)) = NonTerminal(path)
          /\ \A c \in 1..num_cases :
                IsWalk(<<"START">> \o RowActivities(CaseRows(c)) \o <<"END">>)
          /\ \A i \in 1..Len(events) : events[i].case_id \in 1..num_cases
    /\ cpc = "returned" =>
          \A i \in 1..Len(events), j \in 1..Len(events) :
             i < j => EventBefore(events[i], events[j])

\* The frame was returned after two cases that took different paths through
\* a relabeled graph.
C14_Witness ==
    /\ cpc = "returned"
    /\ num_cases = 2
    /\ lmstudio_connector
    /\ Len(CaseRows(1)) = 2
    /\ Len(CaseRows(2)) = 1
    /\ RowActivities(CaseRows(2)) # <<"Activity_1">>

\* The case numbers that have a row in events.
CaseIds == {events[i].case_id : i \in 1..Len(events)}

\* C27: every path walked to END has a node that is neither START nor END,
\* every case gone through has at least one event, and the frame of
\* generate_data has rows for exactly the cases 1..num_cases.
C27_EveryCaseHasEvents ==
    /\ (cpc \in {"case_path", "events", "sort", "returned"}
           /\ path[Len(path)] = "END") => NonTerminal(path) # <<>>
    /\ cpc \in {"case_path", "events"} =>
          /\ 1..(case_id - 1) \subseteq CaseIds
          /\ CaseIds \subseteq 1..case_id
    /\ (cpc = "events" /\ pi > Len(path)) => CaseRows(case_id) # <<>>
    /\ cpc \in {"sort", "returned"} =>
          /\ CaseIds = 1..num_cases
          /\ \A c \in 1..num_cases : Len(CaseRows(c)) >= 1
          /\ Cardinality(CaseIds) = num_cases

\* The frame was returned for two cases, one with a single event.
C27_Witness ==
    /\ cpc = "returned"
    /\ num_cases = 2
    /\ CaseIds = {1, 2}
    /\ Len(CaseRows(1)) = 1
    /\ Len(CaseRows(2)) = 2

(***************************************************************************)
(* One job of src/generator.py, request by request                         *)
(*                                                                         *)
(* The try block of run (lines 20-52) for one process name, with every     *)
(* get_answer call it leads to and the reply of the labeling service to    *)
(* it: a usable text, the empty string, or an exception.  The stages raise *)
(* nothing of their own here; PoolSpec has jobs that raise for any reason. *)
(***************************************************************************)

\* What get_answer does: LMStudioConnector.get_answer returns the text of
\* the reply or raises RequestException.
LabelerReplies == {"text", "empty", "raises"}

\* labeler_log with one more call: where it was made, the stage of the job
\* that was running, the reply, and whether the call site used the reply,
\* used a fallback, or let the exception go.
Logged(site, reply, fate) ==
    Append(labeler_log, [site |-> site, stage |-> jpc, reply |-> reply,
                         outcome |-> fate])

JobInit ==
    /\ PoolIdle
    /\ GraphIdle
    /\ TimeIdle
    /\ CaseIdle
    /\ ShareIdle
    /\ jpc = "improve_name"
    /\ process_name = "name"
    /\ departments = <<>>
    /\ todo = 0
    /\ labeler_log = <<>>
    /\ jerror = "none"

\* generator.py, lines 22-24: no try of its own around get_answer, so an
\* exception goes to line 54; any text, the empty one too, is the name.
\* Lines 27-36 then construct the generator, whose activities are relabeled.
JobImproveName ==
    /\ jpc = "improve_name"
    /\ \E reply \in LabelerReplies :
          IF reply = "raises"
          THEN /\ jpc' = "error"
               /\ jerror' = "RequestException"
               /\ labeler_log' = Logged("improve_name", reply, "propagated")
               /\ UNCHANGED <<process_name, todo>>
          ELSE /\ jpc' = "generate_process"
               /\ process_name' = IF reply = "empty" THEN "" ELSE "improved name"
               /\ labeler_log' = Logged("improve_name", reply, "used")
               /\ \E activities \in 1..(MaxNodes - 2) : todo' = activities
               /\ UNCHANGED jerror
    /\ UNCHANGED departments
    /\ UNCHANGED notjob

\* ProcessGenerator._get_activity_name, lines 144-172, for one activity: an
\* exception is caught at line 164 and the name is Activity_<k>; any text,
\* the empty one too, is cleaned and becomes the name.
JobRelabel ==
    /\ jpc = "generate_process"
    /\ todo > 0
    /\ todo' = todo - 1
    /\ \E reply \in LabelerReplies :
          labeler_log' = Logged("activity_name", reply,
                                IF reply = "raises" THEN "fallback" ELSE "used")
    /\ UNCHANGED <<jpc, process_name, departments, jerror>>
    /\ UNCHANGED notjob

\* generator.py, lines 36-40: generate_process has returned; the graph is
\* drawn (no labeler call).
JobVisualize ==
    /\ jpc = "generate_process"
    /\ todo = 0
    /\ jpc' = "data_generator"
    /\ UNCHANGED <<process_name, departments, todo, labeler_log, jerror>>
    /\ UNCHANGED notjob

\* The list _generate_departments returns (lines 47-54) for a reply: the
\* items between the commas, stripped; the fallback list on an exception.
DepartmentsFor(reply) ==
    CASE reply = "text" -> <<"Sales", "Operations">>
      [] reply = "empty" -> <<"">>
      [] reply = "raises" ->
            <<"Sales", "Operations", "Customer Service", "Finance", "Legal">>

\* ProcessDataGenerator.__init__, line 34.
JobDepartments ==
    /\ jpc = "data_generator"
    /\ \E reply \in LabelerReplies :
          /\ departments' = DepartmentsFor(reply)
          /\ labeler_log' = Logged("departments", reply,
                                   IF reply = "raises" THEN "fallback" ELSE "used")
    /\ jpc' = "resources"
    /\ UNCHANGED <<process_name, todo, jerror>>
    /\ UNCHANGED notjob

\* _generate_resources, line 65: dept.split()[0] of a name without a word
\* raises IndexError.
NoFirstWord(dept) == dept = ""

\* ProcessDataGenerator.__init__, lines 37-38, and generator.py line 51: the
\* IndexError leaves the constructor and reaches line 54; otherwise
\* save_to_csv begins generate_data.
JobResources ==
    /\ jpc = "resources"
    /\ IF \E i \in 1..Len(departments) : NoFirstWord(departments[i])
       THEN /\ jpc' = "error"
            /\ jerror' = "IndexError"
            /\ UNCHANGED todo
       ELSE /\ jpc' = "save_to_csv"
            /\ \E cases \in 1..MaxCases : todo' = cases
            /\ UNCHANGED jerror
    /\ UNCHANGED <<process_name, departments, labeler_log>>
    /\ UNCHANGED notjob

\* _generate_case_attributes, lines 103-111, for one case: an exception is
\* caught at line 108 and a category is drawn; any text is the category.
JobCaseAttributes ==
    /\ jpc = "save_to_csv"
    /\ todo > 0
    /\ todo' = todo - 1
    /\ \E reply \in LabelerReplies :
          labeler_log' = Logged("product_category", reply,
                                IF reply = "raises" THEN "fallback" ELSE "used")
    /\ UNCHANGED <<jpc, process_name, departments, jerror>>
    /\ UNCHANGED notjob

\* A save_to_csv that may write the file while cases are still to be simulated.
JobCreatedEarly ==
    /\ jpc = "save_to_csv"
    /\ jpc' = "created"
    /\ UNCHANGED <<process_name, departments, todo, labeler_log, jerror>>
    /\ UNCHANGED notjob

\* save_to_csv, lines 217-220, and generator.py line 52: generate_data has
\* returned the frame of every case; to_csv writes it.
JobCreated ==
    /\ jpc = "save_to_csv"
    /\ todo = 0
    /\ jpc' = "created"
    /\ UNCHANGED <<process_name, departments, todo, labeler_log, jerror>>
    /\ UNCHANGED notjob

JobNext ==
    \/ JobImproveName
    \/ JobRelabel
    \/ JobVisualize
    \/ JobDepartments
    \/ JobResources
    \/ JobCaseAttributes
    \/ JobCreated

JobSpec == JobInit /\ [][JobNext]_vars

(***************************************************************************)
(* Claims about one job and the labeling service                           *)
(***************************************************************************)

\* C17: a call to the labeling service that raises or returns the empty
\* text is answered at its call site with a fallback value, whichever call
\* it is, and the job is not aborted.
C17_LabelingFailureRecovered ==
    /\ jpc # "error"
    /\ \A i \in 1..Len(labeler_log) :
          labeler_log[i].reply \in {"raises", "empty"} =>
             labeler_log[i].outcome = "fallback"

\* The stages of a job in the order of lines 22-51; in "save_to_csv"
\* generate_data simulates the cases (line 217) before to_csv writes (line 218).
StageRank(stage) ==
    CASE stage = "improve_name" -> 1
      [] stage = "generate_process" -> 2
      [] stage = "data_generator" -> 3
      [] stage = "resources" -> 3
      [] stage = "save_to_csv" -> 4
      [] stage = "created" -> 5
      [] OTHER -> 6

\* The requests of the log were made stage after stage, each site in its
\* own stage, and the file is written after the last case was simulated.
StagesInOrder ==
    /\ \A i \in 1..Len(labeler_log), j \in 1..Len(labeler_log) :
          i < j => StageRank(labeler_log[i].stage) <= StageRank(labeler_log[j].stage)
    /\ \A i \in 1..Len(labeler_log) :
          /\ labeler_log[i].site = "improve_name" <=> labeler_log[i].stage = "improve_name"
          /\ labeler_log[i].site = "activity_name" <=> labeler_log[i].stage = "generate_process"
          /\ labeler_log[i].site = "departments" <=> labeler_log[i].stage = "data_generator"
          /\ labeler_log[i].site = "product_category" <=> labeler_log[i].stage = "save_to_csv"
    /\ jpc = "created" => todo = 0

Touch(w, objs) ==
    [o \in Objects |-> IF o \in objs THEN touched[o] \cup {w} ELSE touched[o]]

\* The objects a stage of run uses for job j in thread w:
\*   line 22        get_answer on self.connector;
\*   lines 27-36    generate_process: random (lines 185, 39-40, 64, 83, 97),
\*                  the generator's used_names and the connector (127-172);
\*   line 40        visualize_with_graphviz: none of them;
\*   lines 43-48    ProcessDataGenerator.__init__: the connector (line 42 of
\*                  ProcessDataGenerator.py) and random (line 64);
\*   line 51        save_to_csv: the connector (line 104) and random
\*                  (lines 109-139, 168, 184).
StageObjects(w, j, stage) ==
    CASE stage = "improve_name" -> {ConnectorOf(w)}
      [] stage = "generate_process" -> {RandomOf(w), UsedNamesOf(j), ConnectorOf(w)}
      [] stage = "visualize" -> {}
      [] stage = "data_generator" -> {ConnectorOf(w), RandomOf(w)}
      [] stage = "save_to_csv" -> {ConnectorOf(w), RandomOf(w)}

ShareInit ==
    /\ PoolIdle
    /\ GraphIdle
    /\ TimeIdle
    /\ CaseIdle
    /\ JobIdle
    /\ \E n \in 0..MaxJobs : oqueue = [i \in 1..n |-> n + 1 - i]
    /\ \E k \in 1..MaxWorkers :
          opc = [w \in Workers |-> IF w < k THEN "get" ELSE "unstarted"]
    /\ ojob = [w \in Workers |-> 0]
    /\ touched = [o \in Objects |-> {}]

\* run, line 16: get_nowait() returns a name.
ShareGet(w) ==
    /\ opc[w] = "get"
    /\ oqueue # <<>>
    /\ ojob' = [ojob EXCEPT ![w] = Head(oqueue)]
    /\ oqueue' = Tail(oqueue)
    /\ opc' = [opc EXCEPT ![w] = Stages[1]]
    /\ touched' = Touch(w, {QueueObject})
    /\ UNCHANGED notshare

\* run, lines 16-18: get_nowait() finds the queue empty; the thread ends.
ShareGetEmpty(w) ==
    /\ opc[w] = "get"
    /\ oqueue = <<>>
    /\ opc' = [opc EXCEPT ![w] = "exited"]
    /\ touched' = Touch(w, {QueueObject})
    /\ UNCHANGED <<ojob, oqueue>>
    /\ UNCHANGED notshare

\* run, lines 22-52: the stage the thread is in runs; the next one follows,
\* the finally clause after the last.
ShareStage(w) ==
    /\ \E i \in 1..Len(Stages) :
          /\ opc[w] = Stages[i]
          /\ touched' = Touch(w, StageObjects(w, ojob[w], Stages[i]))
          /\ opc' = [opc EXCEPT ![w] = IF i < Len(Stages) THEN Stages[i + 1]
                                                       ELSE "finally"]
    /\ UNCHANGED <<ojob, oqueue>>
    /\ UNCHANGED notshare

\* run, lines 54-58: a stage raises; the except clause prints and the
\* finally clause follows.
ShareStageRaises(w) ==
    /\ \E i \in 1..Len(Stages) : opc[w] = Stages[i]
    /\ opc' = [opc EXCEPT ![w] = "finally"]
    /\ UNCHANGED <<ojob, oqueue, touched>>
    /\ UNCHANGED notshare

\* run, lines 57-58: name_queue.task_done().
ShareTaskDone(w) ==
    /\ opc[w] = "finally"
    /\ opc' = [opc EXCEPT ![w] = "get"]
    /\ ojob' = [ojob EXCEPT ![w] = 0]
    /\ touched' = Touch(w, {QueueObject})
    /\ UNCHANGED oqueue
    /\ UNCHANGED notshare

ShareNext ==
    \E w \in Workers :
        \/ ShareGet(w)
        \/ ShareGetEmpty(w)
        \/ ShareStage(w)
        \/ ShareStageRaises(w)
        \/ ShareTaskDone(w)

ShareSpec == ShareInit /\ [][ShareNext]_vars

(***************************************************************************)
(* Claims about the objects the threads share                              *)
(***************************************************************************)

\* The objects more than one worker thread has read or written.
SharedObjects == {o \in Objects : Cardinality(touched[o]) > 1}

====
